---- MODULE Spec2Model ----
(***************************************************************************)
(* A model of bot_gold_price.py (gold price bot: PNJ, DOJI, SJC).          *)
(*                                                                         *)
(* Python values are records tagged by kind: None, an int, a str, or the   *)
(* exception a call ended with.  Strings are TLA+ strings; Python's        *)
(* substring test, lower(), strip() and isdigit() are computed character   *)
(* by character.  A dict is a sequence of [key, val] entries in insertion  *)
(* order (Python dicts keep insertion order).                              *)
(*                                                                         *)
(* Specifications:                                                         *)
(*   SpecNorm    calls of _normalize_price_to_vnd on bounded strings       *)
(*   SpecIdem    the same calls, followed by a call on their own output    *)
(*   SpecChange  calls of _format_change on bounded pairs of amounts       *)
(*   SpecParse   calls of the three source adapters on bounded pages       *)
(*   SpecTrend   calls of _find_item_price and _append_change_section on   *)
(*               bounded quote lists and histories                         *)
(*   Spec        runs of main(), one after the other on one history file   *)
(***************************************************************************)
EXTENDS Integers, Sequences, FiniteSets, TLC

VARIABLES
    pc,            \* where the call or the run is
    args,          \* the arguments of the call
    locals,        \* the local variables assigned so far
    ret,           \* what the call returned or raised
    history_file,  \* gold_history.json
    web,           \* the pages the three sites serve during the run
    io,            \* the files and sites the run has accessed, in order
    stdout,        \* what the run has printed
    telegram,      \* what the run has posted to the Telegram chat
    clock          \* datetime.utcnow(), counted in runs

\* What lies outside a single call.
outside == <<history_file, web, io, stdout, telegram, clock>>

vars == <<pc, args, locals, ret, history_file, web, io, stdout, telegram, clock>>

NoFile == [kind |-> "absent"]

\* A call checked on its own runs in no particular process.
NoProcess ==
    /\ history_file = NoFile
    /\ web = <<>>
    /\ io = <<>>
    /\ stdout = <<>>
    /\ telegram = <<>>
    /\ clock = 0

-----------------------------------------------------------------------------
(* Python values *)

None == [kind |-> "None"]
Num(n) == [kind |-> "int", val |-> n]
Str(s) == [kind |-> "str", val |-> s]
Raised(e) == [kind |-> "raise", val |-> e]
NotYet == [kind |-> "notyet"]

-----------------------------------------------------------------------------
(* str: characters, isdigit, int() *)

CharAt(s, i) == SubSeq(s, i, i)

\* Characters int() accepts as decimal digits.
DecimalChars == {"0", "1", "2", "3", "4", "5", "6", "7", "8", "9"}

\* The model's strings are ASCII (a state's strings are stored as bytes).  "^"
\* stands for U+00B2 SUPERSCRIPT TWO, a character for which str.isdigit() is True
\* and which int() rejects with ValueError; whole words of Vietnamese are written
\* by their base letters ("loại" as "loai", "bán" as "ban"), and no two strings of
\* the model differ by diacritics only.
SuperscriptTwo == "^"

DigitNotDecimalChars == {SuperscriptTwo}

isdigit(ch) == ch \in DecimalChars \cup DigitNotDecimalChars

DigitValue(ch) ==
    CASE ch = "0" -> 0 [] ch = "1" -> 1 [] ch = "2" -> 2 [] ch = "3" -> 3
      [] ch = "4" -> 4 [] ch = "5" -> 5 [] ch = "6" -> 6 [] ch = "7" -> 7
      [] ch = "8" -> 8 [] ch = "9" -> 9

\* ''.join(ch for ch in s if ch.isdigit())
RECURSIVE JoinDigits(_)
JoinDigits(s) ==
    IF s = "" THEN ""
    ELSE LET ch == CharAt(s, 1)
             rest == JoinDigits(SubSeq(s, 2, Len(s)))
         IN IF isdigit(ch) THEN ch \o rest ELSE rest

\* int(digits) succeeds only on decimal digits.
IntAccepts(digits) ==
    digits # "" /\ \A i \in 1..Len(digits) : CharAt(digits, i) \in DecimalChars

RECURSIVE IntOf(_)
IntOf(digits) ==
    IF digits = "" THEN 0
    ELSE 10 * IntOf(SubSeq(digits, 1, Len(digits) - 1))
         + DigitValue(CharAt(digits, Len(digits)))

DigitChars == "0123456789"

\* str(n) of an int n >= 0
RECURSIVE IntToStr(_)
IntToStr(n) ==
    IF n < 10 THEN CharAt(DigitChars, n + 1)
    ELSE IntToStr(n \div 10) \o CharAt(DigitChars, (n % 10) + 1)

\* str(value) of a str or of an int
str(value) == IF value.kind = "int" THEN IntToStr(value.val) ELSE value.val

-----------------------------------------------------------------------------
(* str: lower, upper, strip, the substring test *)

UpperLetters == "ABCDEFGHIJKLMNOPQRSTUVWXYZ"
LowerLetters == "abcdefghijklmnopqrstuvwxyz"

\* ch -> the character at ch's place in `to`, for the characters of `from`.
CharMap(from, to) ==
    [ch \in {CharAt(from, i) : i \in 1..Len(from)} |->
        CharAt(to, CHOOSE i \in 1..Len(from) : CharAt(from, i) = ch)]

ToLower == CharMap(UpperLetters, LowerLetters)
ToUpper == CharMap(LowerLetters, UpperLetters)

RECURSIVE MapStr(_, _)
MapStr(s, map) ==
    IF s = "" THEN ""
    ELSE LET ch == CharAt(s, 1)
         IN (IF ch \in DOMAIN map THEN map[ch] ELSE ch) \o MapStr(SubSeq(s, 2, Len(s)), map)

lower(s) == MapStr(s, ToLower)
upper(s) == MapStr(s, ToUpper)

Whitespace == {" "}

RECURSIVE lstrip(_)
lstrip(s) ==
    IF s # "" /\ CharAt(s, 1) \in Whitespace THEN lstrip(SubSeq(s, 2, Len(s))) ELSE s

RECURSIVE rstrip(_)
rstrip(s) ==
    IF s # "" /\ CharAt(s, Len(s)) \in Whitespace
    THEN rstrip(SubSeq(s, 1, Len(s) - 1))
    ELSE s

strip(s) == rstrip(lstrip(s))

\* sub in s
Contains(sub, s) ==
    \E i \in 1..(Len(s) - Len(sub) + 1) : SubSeq(s, i, i + Len(sub) - 1) = sub

-----------------------------------------------------------------------------
(* dict: a sequence of [key, val] entries in insertion order *)

HasKey(d, k) == \E i \in 1..Len(d) : d[i].key = k

\* d.get(k)
Get(d, k) ==
    IF HasKey(d, k) THEN d[CHOOSE i \in 1..Len(d) : d[i].key = k].val ELSE None

\* d[k] = v: a new key is appended, an existing key keeps its place and takes v.
DictSet(d, k, v) ==
    IF HasKey(d, k)
    THEN [i \in 1..Len(d) |-> IF d[i].key = k THEN [key |-> k, val |-> v] ELSE d[i]]
    ELSE Append(d, [key |-> k, val |-> v])

Dict(entries) == [kind |-> "dict", val |-> entries]

-----------------------------------------------------------------------------
(* _normalize_price_to_vnd *)

\* the thousands rule stopping one digit short
normalize_threshold_off_by_one(value) ==
    IF value = None THEN None
    ELSE LET s == str(value)
             digits == JoinDigits(s)
         IN IF digits = "" THEN None
            ELSE IF ~IntAccepts(digits) THEN Raised("ValueError")
            ELSE LET amount == IntOf(digits)
                 IN Num(IF Len(digits) < 6 THEN amount * 1000 ELSE amount)

_normalize_price_to_vnd(value) ==
    IF value = None THEN None
    ELSE LET s == str(value)
             digits == JoinDigits(s)
         IN IF digits = "" THEN None
            ELSE IF ~IntAccepts(digits) THEN Raised("ValueError")
            ELSE LET amount == IntOf(digits)
                 IN Num(IF Len(digits) <= 6 THEN amount * 1000 ELSE amount)

-----------------------------------------------------------------------------
(* _format_change *)

NoComparison == [text |-> "khong co du lieu so sanh"]

\* f"{symbol} {direction} {diff_str} ({pct_str})": the parts of the sentence.  pct is
\* diff / previous * 100, kept as the fraction pct_num / pct_den it is printed from.
ChangeText(symbol, direction, diff_abs, diff, previous) ==
    [text |-> "change", symbol |-> symbol, direction |-> direction,
     diff_abs |-> diff_abs, pct_num |-> diff * 100, pct_den |-> previous]

abs(n) == IF n < 0 THEN -n ELSE n

format_change_zero_unguarded(current, previous) ==
    IF current = None \/ previous = None THEN NoComparison
    ELSE IF previous.val = 0 THEN Raised("ZeroDivisionError")
    ELSE LET diff == current.val - previous.val
         IN ChangeText(IF diff > 0 THEN "UP" ELSE IF diff < 0 THEN "DOWN" ELSE "RIGHT",
                       IF diff > 0 THEN "tang" ELSE IF diff < 0 THEN "giam" ELSE "dung gia",
                       abs(diff), diff, previous.val)

_format_change(current, previous) ==
    IF current = None \/ previous = None \/ previous.val = 0 THEN NoComparison
    ELSE LET diff == current.val - previous.val
             direction == IF diff > 0 THEN "tang"
                          ELSE IF diff < 0 THEN "giam"
                          ELSE "dung gia"
             symbol == IF diff > 0 THEN "UP"
                       ELSE IF diff < 0 THEN "DOWN"
                       ELSE "RIGHT"
             diff_abs == abs(diff)
         IN IF diff = 0
            THEN ChangeText(symbol, direction, 0, diff, previous.val)
            ELSE ChangeText(symbol, direction, diff_abs, diff, previous.val)

-----------------------------------------------------------------------------
(* _format_vnd_amount *)

\* f"{amount:,}".replace(",", "."): the digits in groups of three
RECURSIVE GroupThousands(_)
GroupThousands(digits) ==
    IF Len(digits) <= 3 THEN digits
    ELSE GroupThousands(SubSeq(digits, 1, Len(digits) - 3)) \o "."
         \o SubSeq(digits, Len(digits) - 2, Len(digits))

_format_vnd_amount(value) ==
    LET amount == _normalize_price_to_vnd(value)
    IN IF amount.kind = "raise" THEN amount
       ELSE IF amount = None THEN Str("")
       ELSE Str(GroupThousands(IntToStr(amount.val)) \o " VND")

-----------------------------------------------------------------------------
(* _find_item_price, _build_history_snapshot *)

Brands == <<"PNJ", "DOJI", "SJC">>

\* The name_contains the callers pass for a brand, and the brand's history key.
HeadlineName(brand) ==
    CASE brand = "PNJ" -> "PNJ HCM" [] brand = "DOJI" -> "AVPL/SJC" [] brand = "SJC" -> "SJC 1L"

HistoryKey(brand) ==
    CASE brand = "PNJ" -> "PNJ_HCM_BAN"
      [] brand = "DOJI" -> "DOJI_AVPL_BAN"
      [] brand = "SJC" -> "SJC_1L_BAN"

\* data.get(key), history.get(key) of a dict held as a function on its keys
DataGet(data, key) == IF key \in DOMAIN data THEN data[key] ELSE None

NameMatches(name_contains, loai) == Contains(lower(name_contains), lower(loai))

\* for loai, info in brand_data.items(): from entry n on; returns at the first match
RECURSIVE FindFrom(_, _, _, _)
FindFrom(brand_data, n, name_contains, field) ==
    IF n > Len(brand_data) THEN None
    ELSE IF NameMatches(name_contains, brand_data[n].key)
    THEN _normalize_price_to_vnd(Str(brand_data[n].val[field]))
    ELSE FindFrom(brand_data, n + 1, name_contains, field)

\* an exact name first, then the first containing one
find_item_price_exact_first(data, brand_key, name_contains, field) ==
    LET brand_data == IF brand_key \in DOMAIN data THEN data[brand_key] ELSE <<>>
    IN IF HasKey(brand_data, name_contains)
       THEN _normalize_price_to_vnd(Str(Get(brand_data, name_contains)[field]))
       ELSE FindFrom(brand_data, 1, name_contains, field)

\* the first entry when none matches
find_item_price_first_fallback(data, brand_key, name_contains, field) ==
    LET brand_data == IF brand_key \in DOMAIN data THEN data[brand_key] ELSE <<>>
    IN IF \E n \in 1..Len(brand_data) : NameMatches(name_contains, brand_data[n].key)
       THEN FindFrom(brand_data, 1, name_contains, field)
       ELSE IF brand_data = <<>> THEN None
       ELSE _normalize_price_to_vnd(Str(brand_data[1].val[field]))

_find_item_price(data, brand_key, name_contains, field) ==
    LET brand_data == IF brand_key \in DOMAIN data THEN data[brand_key] ELSE <<>>
    IN FindFrom(brand_data, 1, name_contains, field)

\* The three headline prices, in the order the callers compute them.
HeadlinePrices(data) ==
    [b \in 1..Len(Brands) |-> _find_item_price(data, Brands[b], HeadlineName(Brands[b]), "ban")]

\* The exception the first raising call ends with, if one raises.
FirstRaise(results) ==
    IF \E n \in 1..Len(results) : results[n].kind = "raise"
    THEN results[CHOOSE n \in 1..Len(results) :
                    /\ results[n].kind = "raise"
                    /\ \A k \in 1..(n - 1) : results[k].kind # "raise"]
    ELSE None

\* the first quote of a brand standing in when none holds the headline name
build_history_snapshot_fallback(data, now) ==
    LET prices == [b \in 1..Len(Brands) |->
                      find_item_price_first_fallback(data, Brands[b], HeadlineName(Brands[b]), "ban")]
    IN IF FirstRaise(prices) # None THEN FirstRaise(prices)
       ELSE Dict([_timestamp_utc |-> now,
                  PNJ_HCM_BAN |-> prices[1],
                  DOJI_AVPL_BAN |-> prices[2],
                  SJC_1L_BAN |-> prices[3]])

_build_history_snapshot(data, now) ==
    LET prices == HeadlinePrices(data)
    IN IF FirstRaise(prices) # None THEN FirstRaise(prices)
       ELSE Dict([_timestamp_utc |-> now,
                  PNJ_HCM_BAN |-> prices[1],
                  DOJI_AVPL_BAN |-> prices[2],
                  SJC_1L_BAN |-> prices[3]])

-----------------------------------------------------------------------------
(* _append_change_section: the lines it appends *)

ChangeHeader == [text |-> "Dien bien so voi lan cap nhat truoc"]
FirstRunNotice == [text |-> "- Chua co du lieu so sanh (lan chay dau tien)."]
BlankLine == [text |-> ""]

ChangeLabel(brand) ==
    CASE brand = "PNJ" -> "PNJ HCM (Ban)"
      [] brand = "DOJI" -> "DOJI AVPL/SJC (Ban)"
      [] brand = "SJC" -> "SJC 1L/10L/1KG (Ban)"

\* bool(v) of an int or None
Truthy(v) == v # None /\ v.val # 0

\* The lines of the brands from the b-th on.
RECURSIVE ChangeLines(_, _, _)
ChangeLines(currs, prevs, b) ==
    IF b > Len(Brands) THEN <<>>
    ELSE (IF currs[b] # None
          THEN <<[label |-> ChangeLabel(Brands[b]),
                  amount |-> _format_vnd_amount(currs[b]),
                  change |-> _format_change(currs[b], prevs[b])]>>
          ELSE <<>>) \o ChangeLines(currs, prevs, b + 1)

_append_change_section(data, history) ==
    LET currs == HeadlinePrices(data)
        prevs == [b \in 1..Len(Brands) |-> DataGet(history, HistoryKey(Brands[b]))]
    IN IF FirstRaise(currs) # None THEN FirstRaise(currs)
       ELSE IF \A b \in 1..Len(Brands) : ~Truthy(prevs[b])
       THEN Dict(<<ChangeHeader, FirstRunNotice, BlankLine>>)
       ELSE Dict(<<ChangeHeader>> \o ChangeLines(currs, prevs, 1) \o <<BlankLine>>)

-----------------------------------------------------------------------------
(* format_gold_message and the sections it is put together from.  In the     *)
(* source the body of format_gold_message is broken up: its first lines are   *)
(* followed by the body of _append_quick_summary, and its last lines come     *)
(* after the body of _append_change_section.  The calls are taken in the      *)
(* order of those pieces: header, quick summary, changes, PNJ, DOJI, SJC,     *)
(* errors.                                                                    *)

\* The exception of the first part that raised, else the lines of all parts.
RECURSIVE JoinParts(_)
JoinParts(parts) ==
    IF parts = <<>> THEN Dict(<<>>)
    ELSE IF Head(parts).kind = "raise" THEN Head(parts)
    ELSE LET rest == JoinParts(Tail(parts))
         IN IF rest.kind = "raise" THEN rest ELSE Dict(Head(parts).val \o rest.val)

_format_header(now) ==
    Dict(<<[text |-> "Bao cao gia vang VN (PNJ - DOJI - SJC)"],
           [text |-> "Cap nhat", header_time |-> now],
           BlankLine>>)

SummaryLabel(brand) ==
    CASE brand = "PNJ" -> "PNJ HCM" [] brand = "DOJI" -> "DOJI AVPL/SJC" [] brand = "SJC" -> "SJC 1L/10L/1KG"

RECURSIVE SummaryLines(_, _)
SummaryLines(prices, b) ==
    IF b > Len(Brands) THEN <<>>
    ELSE (IF prices[b] # None
          THEN <<[summary |-> SummaryLabel(Brands[b]), amount |-> _format_vnd_amount(prices[b])]>>
          ELSE <<>>) \o SummaryLines(prices, b + 1)

_append_quick_summary(data) ==
    LET prices == HeadlinePrices(data)
    IN IF FirstRaise(prices) # None THEN FirstRaise(prices)
       ELSE Dict(<<[text |-> "Tom tat nhanh - Gia ban"]>> \o SummaryLines(prices, 1) \o <<BlankLine>>)

\* s.replace(old, ""), old not empty
RECURSIVE Remove(_, _)
Remove(s, old) ==
    IF Len(s) < Len(old) THEN s
    ELSE IF SubSeq(s, 1, Len(old)) = old THEN Remove(SubSeq(s, Len(old) + 1, Len(s)), old)
    ELSE SubSeq(s, 1, 1) \o Remove(SubSeq(s, 2, Len(s)), old)

SectionTitle(brand) ==
    CASE brand = "PNJ" -> "PNJ" [] brand = "DOJI" -> "DOJI (Trong nuoc)" [] brand = "SJC" -> "SJC"

\* The name and the suffix a brand's section prints for an item.
NameDisplay(brand, loai, info) ==
    CASE brand = "PNJ" -> loai \o (IF info.khu_vuc # "" THEN " [" \o info.khu_vuc \o "]" ELSE "")
      [] brand = "DOJI" -> strip(Remove(Remove(loai, "(nghin/chi)"), "(nghin/chi)"))
      [] brand = "SJC" -> strip(loai)

\* for loai, info in brand_data.items(): the lines from entry n on, or the
\* exception of the first amount that cannot be formatted
RECURSIVE ItemLines(_, _, _)
ItemLines(brand, brand_data, n) ==
    IF n > Len(brand_data) THEN Dict(<<>>)
    ELSE LET mua == _format_vnd_amount(Str(brand_data[n].val.mua))
             ban == _format_vnd_amount(Str(brand_data[n].val.ban))
         IN IF mua.kind = "raise" THEN mua
            ELSE IF ban.kind = "raise" THEN ban
            ELSE JoinParts(<<Dict(<<[item |-> NameDisplay(brand, brand_data[n].key, brand_data[n].val),
                                     mua |-> mua.val, ban |-> ban.val]>>),
                             ItemLines(brand, brand_data, n + 1)>>)

\* _append_pnj_section, _append_doji_section, _append_sjc_section
_append_brand_section(brand, data) ==
    IF brand \notin DOMAIN data THEN Dict(<<>>)
    ELSE IF data[brand] = <<>>
    THEN Dict(<<[text |-> SectionTitle(brand)], [text |-> "- Khong co du lieu."], BlankLine>>)
    ELSE JoinParts(<<Dict(<<[text |-> SectionTitle(brand)]>>),
                     ItemLines(brand, data[brand], 1),
                     Dict(<<BlankLine>>)>>)

_append_error_section(data) ==
    IF "_errors" \notin DOMAIN data \/ data["_errors"] = <<>> THEN Dict(<<>>)
    ELSE Dict(<<[text |-> "Loi trong qua trinh lay du lieu:"]>>
              \o [n \in 1..Len(data["_errors"]) |-> [error |-> data["_errors"][n]]])

\* main always passes a history, so the change section is always there.
format_gold_message(data, history, now) ==
    JoinParts(<<_format_header(now),
                _append_quick_summary(data),
                _append_change_section(data, history),
                _append_brand_section("PNJ", data),
                _append_brand_section("DOJI", data),
                _append_brand_section("SJC", data),
                _append_error_section(data)>>)

-----------------------------------------------------------------------------
(* generate_current_price_chart *)

\* The bars drawn; no file is written when there is none.
RECURSIVE ChartBars(_, _)
ChartBars(prices, b) ==
    IF b > Len(Brands) THEN <<>>
    ELSE (IF prices[b] # None
          THEN <<[label |-> SummaryLabel(Brands[b]), value |-> prices[b].val]>>
          ELSE <<>>) \o ChartBars(prices, b + 1)

generate_current_price_chart(data) ==
    LET prices == HeadlinePrices(data)
    IN IF FirstRaise(prices) # None THEN FirstRaise(prices) ELSE Dict(ChartBars(prices, 1))

-----------------------------------------------------------------------------
(* pd.read_html: the tables of a page, each a DataFrame of column labels and  *)
(* rows of cell texts aligned with the columns (str(cell) of every cell).     *)
(* The labels of a table are distinct after strip().                          *)

Tables(ts) == [kind |-> "tables", val |-> ts]
Table(columns, rows) == [columns |-> columns, rows |-> rows]

\* df.columns = [str(c).strip() for c in df.columns]
StripColumns(df) == [df EXCEPT !.columns = [i \in 1..Len(@) |-> strip(@[i])]]

\* row[col]
Cell(df, row, col) == row[CHOOSE i \in 1..Len(df.columns) : df.columns[i] = col]

Required == {"loai", "mua", "ban"}

\* all(k in col_map for k in required)
AllRequired(col_map) == \A k \in Required : HasKey(col_map, k)

-----------------------------------------------------------------------------
(* _parse_baomoi_gold_table *)

\* The branch of the if/elif chain a label takes; "" when it takes none.
RoleBaomoi(col) ==
    LET lo == lower(col)
    IN IF Contains("loai", lo) /\ Contains("vang", lo) THEN "loai"
       ELSE IF Contains("gia mua", lo) \/ Contains("mua", lo) THEN "mua"
       ELSE IF Contains("gia ban", lo) \/ Contains("ban", lo) THEN "ban"
       ELSE ""

\* for col in df.columns: ... col_map[role] = col, over the first n columns
RECURSIVE BaomoiColMap(_, _)
BaomoiColMap(columns, n) ==
    IF n = 0 THEN <<>>
    ELSE LET col_map == BaomoiColMap(columns, n - 1)
             role == RoleBaomoi(columns[n])
         IN IF role = "" THEN col_map ELSE DictSet(col_map, role, columns[n])

RECURSIVE BaomoiColMapFirstWins(_, _)
BaomoiColMapFirstWins(columns, n) ==
    IF n = 0 THEN <<>>
    ELSE LET col_map == BaomoiColMapFirstWins(columns, n - 1)
             role == RoleBaomoi(columns[n])
         IN IF role = "" \/ HasKey(col_map, role) THEN col_map
            ELSE DictSet(col_map, role, columns[n])

ClassifyBaomoiFirstWins(columns) == BaomoiColMapFirstWins(columns, Len(columns))

ClassifyBaomoi(columns) == BaomoiColMap(columns, Len(columns))

\* for _, row in df.iterrows(): ..., over the first n rows
RECURSIVE BaomoiRows(_, _, _)
BaomoiRows(df, col_map, n) ==
    IF n = 0 THEN <<>>
    ELSE LET result == BaomoiRows(df, col_map, n - 1)
             row == df.rows[n]
             loai == strip(Cell(df, row, Get(col_map, "loai")))
         IN IF loai = "" \/ lower(loai) = "nan" THEN result
            ELSE DictSet(result, loai,
                         [mua |-> strip(Cell(df, row, Get(col_map, "mua"))),
                          ban |-> strip(Cell(df, row, Get(col_map, "ban")))])

RECURSIVE BaomoiRowsNanCaseSensitive(_, _, _)
BaomoiRowsNanCaseSensitive(df, col_map, n) ==
    IF n = 0 THEN <<>>
    ELSE LET result == BaomoiRowsNanCaseSensitive(df, col_map, n - 1)
             row == df.rows[n]
             loai == strip(Cell(df, row, Get(col_map, "loai")))
         IN IF loai = "" \/ loai = "nan" THEN result
            ELSE DictSet(result, loai,
                         [mua |-> strip(Cell(df, row, Get(col_map, "mua"))),
                          ban |-> strip(Cell(df, row, Get(col_map, "ban")))])

ExtractBaomoiNanCaseSensitive(df, col_map) ==
    BaomoiRowsNanCaseSensitive(df, col_map, Len(df.rows))

ExtractBaomoi(df, col_map) == BaomoiRows(df, col_map, Len(df.rows))

\* df = tables[0]: the index (from 1) of the one table the parser looks at.
BaomoiTable(tables) == 1

_parse_baomoi_gold_table(page, source_name) ==
    IF page.kind = "raise" THEN Raised(source_name \o ": Loi doc HTML")
    ELSE IF page.val = <<>>
    THEN Raised(source_name \o ": Khong tim thay bang du lieu nao")
    ELSE LET df == StripColumns(page.val[BaomoiTable(page.val)])
             col_map == ClassifyBaomoi(df.columns)
         IN IF ~AllRequired(col_map)
            THEN Raised(source_name \o ": Khong nhan dien duoc du cot")
            ELSE Dict(ExtractBaomoi(df, col_map))

-----------------------------------------------------------------------------
(* get_pnj_prices, get_sjc_prices *)

\* for loai, info in raw.items(): keep the names holding "PNJ", add khu_vuc
RECURSIVE PnjItems(_, _)
PnjItems(raw, n) ==
    IF n = 0 THEN <<>>
    ELSE LET result == PnjItems(raw, n - 1)
             loai == raw[n].key
             info == raw[n].val
         IN IF ~Contains("PNJ", upper(loai)) THEN result
            ELSE DictSet(result, loai,
                         [mua |-> info.mua, ban |-> info.ban, khu_vuc |-> ""])

PnjFilter(raw) == PnjItems(raw, Len(raw))

\* for loai, info in raw.items(): result[loai] = {mua, ban}
SjcCopy(raw) ==
    [n \in 1..Len(raw) |->
        [key |-> raw[n].key, val |-> [mua |-> raw[n].val.mua, ban |-> raw[n].val.ban]]]

get_pnj_prices(page) ==
    LET raw == _parse_baomoi_gold_table(page, "PNJ (BaoMoi)")
    IN IF raw.kind = "raise" THEN raw ELSE Dict(PnjFilter(raw.val))

get_sjc_prices(page) ==
    LET raw == _parse_baomoi_gold_table(page, "SJC (BaoMoi)")
    IN IF raw.kind = "raise" THEN raw ELSE Dict(SjcCopy(raw.val))

-----------------------------------------------------------------------------
(* get_doji_prices *)

RoleDoji(col) ==
    LET lo == lower(col)
    IN IF Contains("loai", lo) \/ Contains("gia vang trong nuoc", lo) THEN "loai"
       ELSE IF Contains("mua", lo) THEN "mua"
       ELSE IF Contains("ban", lo) THEN "ban"
       ELSE ""

RECURSIVE DojiColMap(_, _)
DojiColMap(columns, n) ==
    IF n = 0 THEN <<>>
    ELSE LET col_map == DojiColMap(columns, n - 1)
             role == RoleDoji(columns[n])
         IN IF role = "" THEN col_map ELSE DictSet(col_map, role, columns[n])

ClassifyDoji(columns) == DojiColMap(columns, Len(columns))

RECURSIVE DojiRows(_, _, _)
DojiRows(df, col_map, n) ==
    IF n = 0 THEN <<>>
    ELSE LET result == DojiRows(df, col_map, n - 1)
             row == df.rows[n]
             loai == strip(Cell(df, row, Get(col_map, "loai")))
         IN IF loai = "" \/ lower(loai) = "nan" THEN result
            ELSE DictSet(result, loai,
                         [mua |-> strip(Cell(df, row, Get(col_map, "mua"))),
                          ban |-> strip(Cell(df, row, Get(col_map, "ban"))),
                          khu_vuc |-> "Trong nuoc"])

ExtractDoji(df, col_map) == DojiRows(df, col_map, Len(df.rows))

DojiUsable(df) == AllRequired(ClassifyDoji(StripColumns(df).columns))

DojiTableFirstOnly(tables) == IF DojiUsable(tables[1]) THEN 1 ELSE 0

\* for df in tables: ... if all(key in col_map for key in required): the index
\* (from 1) of the table the loop stops at, 0 when it runs to its end.
DojiTable(tables) ==
    IF \E i \in 1..Len(tables) : DojiUsable(tables[i])
    THEN CHOOSE i \in 1..Len(tables) :
            /\ DojiUsable(tables[i])
            /\ \A j \in 1..(i - 1) : ~DojiUsable(tables[j])
    ELSE 0

get_doji_prices(page) ==
    IF page.kind = "raise" THEN Raised("DOJI: Loi doc HTML")
    ELSE IF page.val = <<>> THEN Raised("DOJI: Khong tim thay bang du lieu nao")
    ELSE LET i == DojiTable(page.val)
         IN IF i = 0 THEN Raised("DOJI: Da duyet cac bang nhung khong khop cot")
            ELSE LET df == StripColumns(page.val[i])
                 IN Dict(ExtractDoji(df, ClassifyDoji(df.columns)))

-----------------------------------------------------------------------------
(* get_all_gold_prices *)

\* try: data[brand] = get_..._prices()  except Exception as exc:
\* errors.append(f"{brand}: {exc}"), on the [data, errors] built so far
try_adapter_failure_clears(sofar, brand, result) ==
    IF result.kind = "raise"
    THEN [data |-> <<>>, errors |-> Append(sofar.errors, brand \o ": " \o result.val)]
    ELSE [data |-> sofar.data @@ (brand :> result.val), errors |-> sofar.errors]

TryAdapter(sofar, brand, result) ==
    IF result.kind = "raise"
    THEN [data |-> sofar.data, errors |-> Append(sofar.errors, brand \o ": " \o result.val)]
    ELSE [data |-> sofar.data @@ (brand :> result.val), errors |-> sofar.errors]

\* if errors: data["_errors"] = errors
WithErrors(sofar) ==
    IF sofar.errors # <<>>
    THEN [data |-> sofar.data @@ ("_errors" :> sofar.errors), errors |-> sofar.errors]
    ELSE sofar

\* What a site's adapter makes of the page the site serves.
Adapter(brand, page) ==
    CASE brand = "PNJ" -> get_pnj_prices(page)
      [] brand = "DOJI" -> get_doji_prices(page)
      [] brand = "SJC" -> get_sjc_prices(page)

-----------------------------------------------------------------------------
(* gold_history.json: _load_history, _save_history *)

JsonFile(snapshot) == [kind |-> "json", val |-> snapshot]

\* What is left of the file when the dump breaks off after open() truncated it.
PartialFile == [kind |-> "partial"]

\* How reading can end: no file, the JSON read, or another exception (the file
\* cannot be opened or read, or does not hold JSON).
ReadOutcomes(file) ==
    CASE file.kind = "absent" -> {"FileNotFoundError"}
      [] file.kind = "json" -> {"ok", "OSError"}
      [] file.kind = "partial" -> {"JSONDecodeError", "OSError"}

load_history_ignores_errors(file, outcome) == IF file.kind = "json" THEN file.val ELSE <<>>

_load_history(file, outcome) == IF outcome = "ok" THEN file.val ELSE <<>>

\* How writing can end: written, open() refused, or the dump broken off.
WriteOutcomes == {"ok", "open fails", "dump fails"}

\* a null entry of the new snapshot taking the stored entry
save_history_merges(file, snapshot, outcome) ==
    CASE outcome = "ok" ->
             JsonFile(IF file.kind = "json"
                      THEN [_timestamp_utc |-> snapshot._timestamp_utc,
                            PNJ_HCM_BAN |-> IF snapshot.PNJ_HCM_BAN = None
                                            THEN file.val.PNJ_HCM_BAN ELSE snapshot.PNJ_HCM_BAN,
                            DOJI_AVPL_BAN |-> IF snapshot.DOJI_AVPL_BAN = None
                                              THEN file.val.DOJI_AVPL_BAN ELSE snapshot.DOJI_AVPL_BAN,
                            SJC_1L_BAN |-> IF snapshot.SJC_1L_BAN = None
                                           THEN file.val.SJC_1L_BAN ELSE snapshot.SJC_1L_BAN]
                      ELSE snapshot)
      [] outcome = "open fails" -> file
      [] outcome = "dump fails" -> PartialFile

_save_history(file, snapshot, outcome) ==
    CASE outcome = "ok" -> JsonFile(snapshot)
      [] outcome = "open fails" -> file
      [] outcome = "dump fails" -> PartialFile

CannotRead == [text |-> "Khong doc duoc history"]
CannotSave == [text |-> "Khong luu duoc history"]
CannotChart == [text |-> "Khong gui duoc bieu do"]
TestModePhoto == [text |-> "Test mode: bo qua gui anh"]

Fatal(exc) == [kind |-> "fatal", exc |-> exc.val]
Report(lines) == [kind |-> "report", lines |-> lines]

-----------------------------------------------------------------------------
(* Helpers of the properties *)

Max(S) == CHOOSE x \in S : \A y \in S : y <= x
Min(S) == CHOOSE x \in S : \A y \in S : x <= y

-----------------------------------------------------------------------------
(* SpecNorm: one call of _normalize_price_to_vnd on every bounded input *)

MaxLen == 7

NormAlphabet == {"0", "1", ",", SuperscriptTwo}

RECURSIVE StringsOver(_, _)
StringsOver(alphabet, n) ==
    IF n = 0 THEN {""}
    ELSE LET shorter == StringsOver(alphabet, n - 1)
         IN shorter \cup {s \o c : s \in {t \in shorter : Len(t) = n - 1}, c \in alphabet}

NormInputs == {None} \cup {Str(s) : s \in StringsOver(NormAlphabet, MaxLen)}
              \cup {Num(0), Num(1000), Num(999999), Num(1000000), Num(154800000)}

InitNorm ==
    /\ pc = "call"
    /\ NoProcess
    /\ args \in {[value |-> v] : v \in NormInputs}
    /\ locals = <<>>
    /\ ret = NotYet

CallNormalize ==
    /\ pc = "call"
    /\ UNCHANGED outside
    /\ ret' = _normalize_price_to_vnd(args.value)
    /\ pc' = "return"
    /\ UNCHANGED <<args, locals>>

NextNorm == CallNormalize

SpecNorm == InitNorm /\ [][NextNorm]_vars

C4_HasDigit(s) == \E i \in 1..Len(s) : isdigit(CharAt(s, i))

\* C4: for every input normalize never raises; it returns null when the input is
\* None or holds no digit character; otherwise, with d the digit characters in
\* order, int(d) * 1000 when len(d) <= 6 and int(d) when len(d) > 6.
C4_NormalizeTotal ==
    pc = "return" =>
        /\ ret.kind # "raise"
        /\ (args.value = None \/ ~C4_HasDigit(str(args.value))) => ret = None
        /\ (args.value # None /\ C4_HasDigit(str(args.value))) =>
               LET d == JoinDigits(str(args.value))
               IN /\ ret.kind = "int"
                  /\ Len(d) <= 6 => ret.val = IntOf(d) * 1000
                  /\ Len(d) > 6 => ret.val = IntOf(d)

\* What does hold of the code: the same statement for the inputs all of whose
\* isdigit() characters are decimal digits; the others end in int()'s ValueError.
C4_DecimalInputsOnly ==
    pc = "return" =>
        IF args.value # None /\ \E i \in 1..Len(str(args.value)) :
                                    CharAt(str(args.value), i) \in DigitNotDecimalChars
        THEN ret = Raised("ValueError")
        ELSE C4_NormalizeTotal

-----------------------------------------------------------------------------
(* SpecIdem: a call of _normalize_price_to_vnd on every bounded input and,    *)
(* when it returns an int, a second call on str() of what it returned.        *)

\* normalize(str(normalize(x))): the second call
CallNormalizeOutput ==
    /\ pc = "return"
    /\ UNCHANGED outside
    /\ ret.kind = "int"
    /\ locals' = [first |-> ret, again |-> Str(str(ret))]
    /\ ret' = _normalize_price_to_vnd(locals'.again)
    /\ pc' = "again"
    /\ UNCHANGED args

NextIdem == CallNormalize \/ CallNormalizeOutput

SpecIdem == InitNorm /\ [][NextIdem]_vars

\* The digit characters of the input x.
DigitsOfInput == IF args.value = None THEN "" ELSE JoinDigits(str(args.value))

\* C12 as stated: for every input x with more than 6 digit characters,
\* normalize(str(normalize(x))) = normalize(x).
C12_IdempotentOverSixDigits ==
    (pc = "again" /\ Len(DigitsOfInput) > 6) => ret = locals.first

\* C12, amended: for every input x with more than 6 digit characters, normalize(x)
\* raises ValueError when one of them is not a decimal digit, and is otherwise the
\* integer n they spell; normalize(str(n)) = n when n >= 1,000,000, and n * 1000
\* when leading zeros make n smaller (equal to n only for n = 0).
C12_IdempotentFromAMillion ==
    Len(DigitsOfInput) > 6 =>
        /\ pc = "return" =>
               ret = IF IntAccepts(DigitsOfInput) THEN Num(IntOf(DigitsOfInput))
                     ELSE Raised("ValueError")
        /\ pc = "again" =>
               /\ locals.first = Num(IntOf(DigitsOfInput))
               /\ ret = IF locals.first.val >= 1000000 THEN locals.first
                        ELSE Num(locals.first.val * 1000)

C12_Witness ==
    /\ pc = "again"
    /\ args.value = Str("1000000")
    /\ locals.first = Num(1000000)
    /\ locals.again = Str("1000000")
    /\ ret = Num(1000000)

-----------------------------------------------------------------------------
(* SpecChange: one call of _format_change on every bounded pair *)

MaxAmount == 3

OptAmounts == {None} \cup {Num(n) : n \in (-MaxAmount)..MaxAmount}

InitChange ==
    /\ pc = "call"
    /\ NoProcess
    /\ args \in {[current |-> c, previous |-> p] : c \in OptAmounts, p \in OptAmounts}
    /\ locals = <<>>
    /\ ret = NotYet

CallFormatChange ==
    /\ pc = "call"
    /\ UNCHANGED outside
    /\ ret' = _format_change(args.current, args.previous)
    /\ pc' = "return"
    /\ UNCHANGED <<args, locals>>

NextChange == CallFormatChange

SpecChange == InitChange /\ [][NextChange]_vars

\* C5: the trend result is "no comparison data" exactly when previous is null or
\* zero or current is null; otherwise the direction is increase when
\* current - previous > 0, decrease when it is < 0 and unchanged when it is 0.
C5_DirectionFromSign ==
    pc = "return" =>
        LET c == args.current
            p == args.previous
            nodata == c = None \/ p = None \/ p.val = 0
        IN /\ (ret = NoComparison) <=> nodata
           /\ ~nodata =>
                  /\ ret.text = "change"
                  /\ c.val - p.val > 0 => ret.direction = "tang" /\ ret.symbol = "UP"
                  /\ c.val - p.val < 0 => ret.direction = "giam" /\ ret.symbol = "DOWN"
                  /\ c.val - p.val = 0 => ret.direction = "dung gia" /\ ret.symbol = "RIGHT"
                  /\ ret.diff_abs = abs(c.val - p.val)

C5_Witness ==
    /\ pc = "return"
    /\ args.current = Num(1)
    /\ args.previous = Num(2)
    /\ ret.text = "change"
    /\ ret.direction = "giam"

-----------------------------------------------------------------------------
(* SpecParse: one call of get_pnj_prices, get_doji_prices or get_sjc_prices   *)
(* on a page, step by step: read the tables, choose the table and map its     *)
(* columns, extract the rows, post-process.                                   *)

MaxCols == 4
MaxRows == 3
MaxTables == 2

Sources == {"PNJ", "DOJI", "SJC"}

SourceName(source) ==
    CASE source = "PNJ" -> "PNJ (BaoMoi)"
      [] source = "SJC" -> "SJC (BaoMoi)"
      [] source = "DOJI" -> "DOJI"

RECURSIVE SeqsUpTo(_, _)
SeqsUpTo(S, n) ==
    IF n = 0 THEN {<<>>}
    ELSE LET shorter == SeqsUpTo(S, n - 1)
         IN shorter \cup {Append(q, x) : q \in {t \in shorter : Len(t) = n - 1}, x \in S}

Distinct(q) == \A i, j \in 1..Len(q) : i # j => q[i] # q[j]

\* Header lists: every list of distinct labels, with one row whose cell names its column.
HeaderLabels ==
    {"Loai vang", "Gia vang trong nuoc", "Gia mua", " Mua vao ", "Gia ban", "MUA BAN",
     "Khu vuc"}

ColumnCells == <<"1", "2", "3", "4", "5", "6", "7">>

HeaderPages ==
    {Tables(<<Table(cols, <<SubSeq(ColumnCells, 1, Len(cols))>>)>>) :
        cols \in {q \in SeqsUpTo(HeaderLabels, MaxCols) : Distinct(q)}}

\* Row lists: every list of rows under the headers of a BaoMoi price table.
RowCatalogue ==
    {<<"", "1", "2">>, <<"NaN", "1", "2">>, <<"PNJ HCM", "1", "2">>,
     <<" PNJ HCM", " 3", "4">>, <<"SJC 1L", "1", "2">>, <<"SJC 1L ", "3", "4 ">>}

RowPages ==
    {Tables(<<Table(<<"Loai vang", "Gia mua", "Gia ban">>, rows)>>) :
        rows \in SeqsUpTo(RowCatalogue, MaxRows)}

\* Table lists: a currency table, two price tables, DOJI's own table.
TCurrency == Table(<<"Ngoai te", "Mua", "Ban">>, << <<"USD", "5", "6">> >>)
TGoldA == Table(<<"Loai vang", "Gia mua", "Gia ban">>, << <<"PNJ HCM", "1", "2">> >>)
TGoldB == Table(<<"Loai vang", "Gia mua", "Gia ban">>, << <<"SJC 1L", "3", "4">> >>)
TDoji == Table(<<"Gia vang trong nuoc", "Mua", "Ban">>, << <<"AVPL/SJC", "7", "8">> >>)

TablePages ==
    {Tables(ts) : ts \in SeqsUpTo({TCurrency, TGoldA, TGoldB, TDoji}, MaxTables)}

ParsePages == HeaderPages \cup RowPages \cup TablePages \cup {Raised("HTTPError")}

InitParse ==
    /\ pc = "call"
    /\ NoProcess
    /\ args \in {[source |-> src, page |-> pg] : src \in Sources, pg \in ParsePages}
    /\ locals = <<>>
    /\ ret = NotYet

\* pd.read_html and "if not tables"
ReadHtml ==
    /\ pc = "call"
    /\ UNCHANGED outside
    /\ IF args.page.kind = "raise"
       THEN /\ ret' = Raised(SourceName(args.source) \o ": Loi doc HTML")
            /\ pc' = "return"
            /\ UNCHANGED locals
       ELSE IF args.page.val = <<>>
       THEN /\ ret' = Raised(SourceName(args.source) \o ": Khong tim thay bang du lieu nao")
            /\ pc' = "return"
            /\ UNCHANGED locals
       ELSE /\ locals' = [tables |-> args.page.val]
            /\ pc' = "select"
            /\ UNCHANGED ret
    /\ UNCHANGED args

\* df = tables[0], the column map, the check of the required columns
BaomoiSelect ==
    /\ pc = "select"
    /\ UNCHANGED outside
    /\ args.source \in {"PNJ", "SJC"}
    /\ LET i == BaomoiTable(locals.tables)
           df == StripColumns(locals.tables[i])
           col_map == ClassifyBaomoi(df.columns)
       IN /\ locals' = [tables |-> locals.tables, i |-> i, df |-> df, col_map |-> col_map]
          /\ IF AllRequired(col_map)
             THEN pc' = "extract" /\ UNCHANGED ret
             ELSE /\ ret' = Raised(SourceName(args.source) \o ": Khong nhan dien duoc du cot")
                  /\ pc' = "return"
    /\ UNCHANGED args

\* the loop over the tables up to the first with the required columns
DojiSelect ==
    /\ pc = "select"
    /\ UNCHANGED outside
    /\ args.source = "DOJI"
    /\ LET i == DojiTable(locals.tables)
       IN IF i = 0
          THEN /\ locals' = [tables |-> locals.tables, i |-> 0]
               /\ ret' = Raised("DOJI: Da duyet cac bang nhung khong khop cot")
               /\ pc' = "return"
          ELSE LET df == StripColumns(locals.tables[i])
               IN /\ locals' = [tables |-> locals.tables, i |-> i, df |-> df,
                                col_map |-> ClassifyDoji(df.columns)]
                  /\ pc' = "extract"
                  /\ UNCHANGED ret
    /\ UNCHANGED args

BaomoiExtract ==
    /\ pc = "extract"
    /\ UNCHANGED outside
    /\ args.source \in {"PNJ", "SJC"}
    /\ locals' = [tables |-> locals.tables, i |-> locals.i, df |-> locals.df,
                  col_map |-> locals.col_map,
                  result |-> ExtractBaomoi(locals.df, locals.col_map)]
    /\ pc' = "adapt"
    /\ UNCHANGED <<args, ret>>

DojiExtract ==
    /\ pc = "extract"
    /\ UNCHANGED outside
    /\ args.source = "DOJI"
    /\ locals' = [tables |-> locals.tables, i |-> locals.i, df |-> locals.df,
                  col_map |-> locals.col_map,
                  result |-> ExtractDoji(locals.df, locals.col_map)]
    /\ ret' = Dict(locals'.result)
    /\ pc' = "return"
    /\ UNCHANGED args

PnjAdapt ==
    /\ pc = "adapt"
    /\ UNCHANGED outside
    /\ args.source = "PNJ"
    /\ ret' = Dict(PnjFilter(locals.result))
    /\ pc' = "return"
    /\ UNCHANGED <<args, locals>>

SjcAdapt ==
    /\ pc = "adapt"
    /\ UNCHANGED outside
    /\ args.source = "SJC"
    /\ ret' = Dict(SjcCopy(locals.result))
    /\ pc' = "return"
    /\ UNCHANGED <<args, locals>>

NextParse ==
    \/ ReadHtml
    \/ BaomoiSelect
    \/ DojiSelect
    \/ BaomoiExtract
    \/ DojiExtract
    \/ PnjAdapt
    \/ SjcAdapt

SpecParse == InitParse /\ [][NextParse]_vars

\* The steps compose to the adapters as the aggregation calls them.
ParseStepsAgree ==
    pc = "return" =>
        ret = CASE args.source = "PNJ" -> get_pnj_prices(args.page)
                [] args.source = "DOJI" -> get_doji_prices(args.page)
                [] args.source = "SJC" -> get_sjc_prices(args.page)

\* The branch of a source's if/elif chain a stripped label takes.
RoleFor(source, col) == IF source = "DOJI" THEN RoleDoji(col) ELSE RoleBaomoi(col)

\* The columns (by position) of the table under examination that take a role.
ColumnsOfRole(role) ==
    {c \in 1..Len(locals.df.columns) : RoleFor(args.source, locals.df.columns[c]) = role}

Mapped == pc \in {"extract", "adapt", "return"} /\ "col_map" \in DOMAIN locals

\* C7 as stated: each role is assigned to at most one header, and when two or more
\* headers match the same role the role is mapped to the earliest such header.
C7_EarliestHeaderWins ==
    Mapped =>
        \A role \in Required :
            LET matching == ColumnsOfRole(role)
            IN /\ Cardinality({e \in 1..Len(locals.col_map) : locals.col_map[e].key = role}) <= 1
               /\ matching # {} =>
                      Get(locals.col_map, role) = locals.df.columns[Min(matching)]

\* C7, amended: each role is assigned to at most one header, a role is mapped
\* exactly when some header matches it, and when two or more headers match the
\* same role the role is mapped to the latest such header in column order.
C7_LatestHeaderWins ==
    Mapped =>
        /\ \A e \in 1..Len(locals.col_map) : locals.col_map[e].key \in Required
        /\ \A role \in Required :
            LET matching == ColumnsOfRole(role)
            IN /\ Cardinality({e \in 1..Len(locals.col_map) : locals.col_map[e].key = role}) <= 1
               /\ HasKey(locals.col_map, role) <=> matching # {}
               /\ matching # {} =>
                      Get(locals.col_map, role) = locals.df.columns[Max(matching)]

C7_Witness ==
    /\ pc = "extract"
    /\ args.source = "PNJ"
    /\ locals.df.columns = <<"Loai vang", "Gia mua", "Gia ban", "Mua vao">>
    /\ Cardinality(ColumnsOfRole("mua")) >= 2
    /\ Get(locals.col_map, "mua") = locals.df.columns[Max(ColumnsOfRole("mua"))]
    /\ Get(locals.col_map, "mua") # locals.df.columns[Min(ColumnsOfRole("mua"))]

\* A table's headers cover all the roles the source requires.
Covers(source, table) ==
    \A role \in Required :
        \E c \in 1..Len(table.columns) : RoleFor(source, strip(table.columns[c])) = role

Qualifying(source, tables) == {t \in 1..Len(tables) : Covers(source, tables[t])}

Selected == pc \in {"extract", "adapt"} \/ (pc = "return" /\ ret.kind = "dict")

NoMatchingTable == pc = "return" /\ ret.kind = "raise"

Decided == pc \in {"extract", "adapt", "return"} /\ args.page.kind = "tables"

\* C6 as stated: for every source, selection returns the first table in discovery
\* order whose headers cover the source's required roles, and fails when the list
\* is empty or no candidate qualifies.
C6_FirstQualifyingEverySource ==
    Decided =>
        LET q == Qualifying(args.source, args.page.val)
        IN /\ q = {} => NoMatchingTable
           /\ q # {} => Selected /\ locals.i = Min(q)

\* C6, amended: DOJI's selection returns the first table in discovery order whose
\* headers cover the required roles and fails when the list is empty or no table
\* qualifies; the PNJ and SJC selection looks at the first table only: it returns
\* that table when its headers cover the required roles and fails otherwise, also
\* when a later table qualifies, and when the list is empty.
C6_FirstQualifyingDojiFirstTableBaomoi ==
    Decided =>
        LET q == Qualifying(args.source, args.page.val)
        IN IF args.source = "DOJI"
           THEN /\ q = {} => NoMatchingTable
                /\ q # {} => Selected /\ locals.i = Min(q)
           ELSE /\ 1 \notin q => NoMatchingTable
                /\ 1 \in q => Selected /\ locals.i = 1

C6_Witness ==
    /\ pc = "return"
    /\ args.source = "DOJI"
    /\ args.page = Tables(<<TCurrency, TGoldA>>)
    /\ locals.i = 2
    /\ ret = Dict(<<[key |-> "PNJ HCM",
                     val |-> [mua |-> "1", ban |-> "2", khu_vuc |-> "Trong nuoc"]]>>)

\* The rows (by position) of the table whose item-name cell is non-empty and not "nan".
ItemName(r) == strip(Cell(locals.df, locals.df.rows[r], Get(locals.col_map, "loai")))

KeptRows == {r \in 1..Len(locals.df.rows) : ItemName(r) # "" /\ lower(ItemName(r)) # "nan"}

Price(r, role) == strip(Cell(locals.df, locals.df.rows[r], Get(locals.col_map, role)))

Extracted == pc \in {"adapt", "return"} /\ "result" \in DOMAIN locals

\* The r-th smallest element of a set of row positions.
RECURSIVE Nth(_, _)
Nth(S, n) == IF n = 1 THEN Min(S) ELSE Nth(S \ {Min(S)}, n - 1)

\* C8 as stated: the extracted records are exactly the rows whose item-name cell is
\* non-empty and not "nan"-like, in row order: one record per such row, none
\* dropped, duplicated, merged or reordered.
C8_OneRecordPerKeptRow ==
    Extracted =>
        /\ Len(locals.result) = Cardinality(KeptRows)
        /\ \A n \in 1..Len(locals.result) :
               n <= Cardinality(KeptRows) =>
                   LET r == Nth(KeptRows, n)
                   IN /\ locals.result[n].key = ItemName(r)
                      /\ locals.result[n].val.mua = Price(r, "mua")
                      /\ locals.result[n].val.ban = Price(r, "ban")

\* C8, amended: the extracted records are keyed by item name: there is exactly one
\* record per distinct stripped item name among the rows whose item-name cell is
\* non-empty and not "nan"-like, the records are in the order of the first row of
\* each name, and a record carries the buy and sell cells of the last row of its
\* name; rows of distinct names are neither dropped, duplicated nor reordered.
C8_OneRecordPerItemName ==
    Extracted =>
        LET RowsNamed(name) == {r \in KeptRows : ItemName(r) = name}
        IN /\ \A n \in 1..Len(locals.result) : RowsNamed(locals.result[n].key) # {}
           /\ \A r \in KeptRows : HasKey(locals.result, ItemName(r))
           /\ \A n, m \in 1..Len(locals.result) :
                  n < m => Min(RowsNamed(locals.result[n].key))
                               < Min(RowsNamed(locals.result[m].key))
           /\ \A n \in 1..Len(locals.result) :
                  LET r == Max(RowsNamed(locals.result[n].key))
                  IN /\ locals.result[n].val.mua = Price(r, "mua")
                     /\ locals.result[n].val.ban = Price(r, "ban")

C8_Witness ==
    /\ pc = "adapt"
    /\ Extracted
    /\ locals.df.rows = << <<"PNJ HCM", "1", "2">>, <<"NaN", "1", "2">>,
                           <<" PNJ HCM", " 3", "4">> >>
    /\ locals.result = <<[key |-> "PNJ HCM", val |-> [mua |-> "3", ban |-> "4"]]>>

-----------------------------------------------------------------------------
(* SpecTrend: one call of _find_item_price (as the headline selection of a     *)
(* brand) or of _append_change_section, on every bounded quote list of one     *)
(* brand beside one quote of each other brand, and every bounded history.      *)

MaxQuotes == 2

\* Item names of a brand: the headline name itself, a longer name holding it in
\* another case, a part of it, and an unrelated name.
NamesOf(brand) ==
    {HeadlineName(brand),
     "Vang " \o lower(HeadlineName(brand)) \o " - ban le",
     SubSeq(HeadlineName(brand), 1, 3),
     "Nhan tron 9999"}

Quote(loai, ban) == [key |-> loai, val |-> [mua |-> "1", ban |-> ban]]

QuotesOf(brand) ==
    {Quote(name, ban) : name \in NamesOf(brand), ban \in {"1", "2"}}
    \cup {Quote(HeadlineName(brand), "nan"), Quote(HeadlineName(brand), SuperscriptTwo),
          Quote("Nhan tron 9999", "nan")}

\* A dict holds a key once.
QuoteLists(brand) ==
    {q \in SeqsUpTo(QuotesOf(brand), MaxQuotes) :
        \A i, j \in 1..Len(q) : i # j => q[i].key # q[j].key}

\* One matching quote for every brand.
BaseData == [b \in {"PNJ", "DOJI", "SJC"} |-> <<Quote(HeadlineName(b), "5")>>]

\* The data of a run in which `brand` gave the quotes q, and of one in which its
\* adapter failed.
DataWith(brand, q) == [BaseData EXCEPT ![brand] = q]

DataWithout(brand) == [b \in {"PNJ", "DOJI", "SJC"} \ {brand} |-> BaseData[b]]

TrendData ==
    UNION {{DataWith(brand, q) : q \in QuoteLists(brand)} \cup {DataWithout(brand)} :
              brand \in {"PNJ", "DOJI", "SJC"}}

History(pnj, doji, sjc) ==
    [_timestamp_utc |-> 0, PNJ_HCM_BAN |-> pnj, DOJI_AVPL_BAN |-> doji, SJC_1L_BAN |-> sjc]

PriorPrices == {None, Num(0), Num(1000), Num(5000)}

TrendHistories ==
    {History(a, b, c) : a \in PriorPrices, b \in {None, Num(5000)}, c \in PriorPrices}

InitTrend ==
    /\ pc = "call"
    /\ NoProcess
    /\ \/ \E d \in TrendData, b \in {"PNJ", "DOJI", "SJC"} :
              args = [fn |-> "_find_item_price", data |-> d, brand_key |-> b]
       \/ \E d \in TrendData, h \in TrendHistories \cup {<<>>} :
              args = [fn |-> "_append_change_section", data |-> d, history |-> h]
    /\ locals = <<>>
    /\ ret = NotYet

CallFindItemPrice ==
    /\ pc = "call"
    /\ UNCHANGED outside
    /\ args.fn = "_find_item_price"
    /\ ret' = _find_item_price(args.data, args.brand_key, HeadlineName(args.brand_key), "ban")
    /\ pc' = "return"
    /\ UNCHANGED <<args, locals>>

CallAppendChangeSection ==
    /\ pc = "call"
    /\ UNCHANGED outside
    /\ args.fn = "_append_change_section"
    /\ ret' = _append_change_section(args.data, args.history)
    /\ pc' = "return"
    /\ UNCHANGED <<args, locals>>

NextTrend == CallFindItemPrice \/ CallAppendChangeSection

SpecTrend == InitTrend /\ [][NextTrend]_vars

\* The current quotes of a brand in the call's data.
QuotesIn(data, brand) == IF brand \in DOMAIN data THEN data[brand] ELSE <<>>

\* The quotes (by position) whose item_name is, or holds, the brand's headline name.
ExactQuotes(data, brand) ==
    {n \in 1..Len(QuotesIn(data, brand)) : QuotesIn(data, brand)[n].key = HeadlineName(brand)}

ContainingQuotes(data, brand) ==
    {n \in 1..Len(QuotesIn(data, brand)) :
        Contains(lower(HeadlineName(brand)), lower(QuotesIn(data, brand)[n].key))}

SellOf(data, brand, n) == _normalize_price_to_vnd(Str(QuotesIn(data, brand)[n].val.ban))

\* The trend lines of a brand in the section returned.
TrendLines(section, brand) ==
    {i \in 1..Len(section) :
        "label" \in DOMAIN section[i] /\ section[i].label = ChangeLabel(brand)}

ChangeReturned ==
    pc = "return" /\ args.fn = "_append_change_section" /\ ret.kind = "dict"

PriorOf(brand) == DataGet(args.history, HistoryKey(brand))

\* C2 as stated: for each brand with a prior entry the trend step links the prior
\* entry to the current quote whose item_name equals the prior name exactly, else
\* to the first quote whose item_name holds it; only if neither exists the link is
\* broken.
C2_ExactThenContaining ==
    ChangeReturned =>
        \A b \in 1..Len(Brands) :
            Truthy(PriorOf(Brands[b])) =>
                LET exact == ExactQuotes(args.data, Brands[b])
                    holding == ContainingQuotes(args.data, Brands[b])
                    lines == TrendLines(ret.val, Brands[b])
                    linked == IF exact # {} THEN Min(exact) ELSE Min(holding)
                IN IF exact = {} /\ holding = {}
                   THEN lines = {}
                   ELSE SellOf(args.data, Brands[b], linked).kind = "int" =>
                            /\ Cardinality(lines) = 1
                            /\ \A i \in lines :
                                   ret.val[i].change =
                                       _format_change(SellOf(args.data, Brands[b], linked),
                                                      PriorOf(Brands[b]))

\* C2, amended: for each brand with a (non-zero) prior price the trend step links
\* it to the first current quote, in quote order, whose item_name holds the brand's
\* headline name case-insensitively (name-in-item only, never item-in-name), an
\* exactly equal item_name having no precedence; the delta is computed against
\* that quote's sell price when it is resolvable, and the brand gets no trend line
\* when no quote holds the name or that quote's sell price is null.  The step
\* raises ValueError, and gives no section, exactly when the linked quote of some
\* brand has a sell text that normalize raises on.
C2_FirstContaining ==
    (pc = "return" /\ args.fn = "_append_change_section") =>
        /\ ret.kind = "raise" <=>
               \E b \in 1..Len(Brands) :
                   /\ ContainingQuotes(args.data, Brands[b]) # {}
                   /\ SellOf(args.data, Brands[b],
                             Min(ContainingQuotes(args.data, Brands[b]))).kind = "raise"
        /\ ret.kind = "dict" =>
               \A b \in 1..Len(Brands) :
                   Truthy(PriorOf(Brands[b])) =>
                       LET holding == ContainingQuotes(args.data, Brands[b])
                           lines == TrendLines(ret.val, Brands[b])
                       IN IF holding = {} \/ SellOf(args.data, Brands[b], Min(holding)) = None
                          THEN lines = {}
                          ELSE /\ Cardinality(lines) = 1
                               /\ \A i \in lines :
                                      ret.val[i].change =
                                          _format_change(SellOf(args.data, Brands[b], Min(holding)),
                                                         PriorOf(Brands[b]))

C2_Witness ==
    /\ ChangeReturned
    /\ QuotesIn(args.data, "SJC") = <<Quote("Vang sjc 1l - ban le", "1"), Quote("SJC 1L", "2")>>
    /\ PriorOf("SJC") = Num(5000)
    /\ \E i \in TrendLines(ret.val, "SJC") :
           /\ ret.val[i].change.text = "change"
           /\ ret.val[i].change.direction = "giam"
           /\ ret.val[i].change.diff_abs = 4000

FindReturned == pc = "return" /\ args.fn = "_find_item_price"

\* C9 as stated: headline selection returns null only if the quote list is empty
\* or no quote has a resolvable sell price; when no item_name matches the brand's
\* preferred substring it falls back to the first quote; the sell_price returned
\* is the normalized integer, never the raw text.
C9_NullOnlyWithoutPrices ==
    FindReturned =>
        LET quotes == QuotesIn(args.data, args.brand_key)
        IN /\ ret = None =>
                  \/ quotes = <<>>
                  \/ \A n \in 1..Len(quotes) : SellOf(args.data, args.brand_key, n).kind # "int"
           /\ (quotes # <<>> /\ ContainingQuotes(args.data, args.brand_key) = {}) =>
                  ret = SellOf(args.data, args.brand_key, 1)
           /\ ret.kind # "str"

\* C9, amended: headline selection returns what normalize gives (an integer, null,
\* or the ValueError it raises on a non-decimal digit) for the sell text
\* of the first quote, in original order, whose item_name holds the brand's
\* preferred substring, and null when no quote holds it: there is no fallback to
\* the first quote, and a later matching quote is not tried when the first one has
\* no resolvable price.  The price returned is the normalized integer, never the
\* raw text.
C9_FirstContainingOrNull ==
    FindReturned =>
        LET holding == ContainingQuotes(args.data, args.brand_key)
        IN /\ holding = {} => ret = None
           /\ holding # {} => ret = SellOf(args.data, args.brand_key, Min(holding))
           /\ ret.kind # "str"
           /\ ret.kind = "int" =>
                  ret.val = IntOf(JoinDigits(QuotesIn(args.data, args.brand_key)[Min(holding)].val.ban))
                                * 1000

C9_Witness ==
    /\ FindReturned
    /\ args.brand_key = "PNJ"
    /\ QuotesIn(args.data, "PNJ") = <<Quote("Nhan tron 9999", "1"), Quote("PNJ", "2")>>
    /\ ret = None

-----------------------------------------------------------------------------
(* Spec: runs of main(), one after the other on the same gold_history.json,   *)
(* each against pages the three sites serve during that run.                  *)

MaxRuns == 2

GoldPage(rows) == Tables(<<Table(<<"Loai vang", "Gia mua", "Gia ban">>, rows)>>)

PnjPages ==
    {GoldPage(<< <<"PNJ HCM", "1", "2">>, <<"Nhan PNJ", "1", "1">> >>),
     GoldPage(<< <<"Vang pnj hcm - ban le", "2", "3">> >>),
     GoldPage(<< <<"PNJ Ha Noi", "1", "2">>, <<"SJC 1L", "3", "4">> >>),
     Raised("HTTPError")}

DojiPages ==
    {Tables(<<TCurrency,
              Table(<<"Gia vang trong nuoc", "Mua", "Ban">>,
                    << <<"AVPL/SJC (nghin/chi)", "7", "8">> >>)>>),
     Tables(<<TCurrency>>)}

SjcPages ==
    {GoldPage(<< <<"SJC 1L", "3", "4">> >>),
     GoldPage(<< <<"SJC 5c", "3", SuperscriptTwo>> >>),
     Raised("HTTPError")}

Webs == {[PNJ |-> p, DOJI |-> d, SJC |-> j] : p \in PnjPages, d \in DojiPages, j \in SjcPages}

Init ==
    /\ pc = "load"
    /\ args = <<>>
    /\ locals = <<>>
    /\ ret = NotYet
    /\ history_file = NoFile
    /\ web \in Webs
    /\ io = <<>>
    /\ stdout = <<>>
    /\ telegram = <<>>
    /\ clock = 1

\* prev_history = _load_history()
LoadHistory ==
    /\ pc = "load"
    /\ \E outcome \in ReadOutcomes(history_file) :
           /\ locals' = [prev_history |-> _load_history(history_file, outcome)]
           /\ stdout' = IF outcome \in {"ok", "FileNotFoundError"} THEN stdout
                        ELSE Append(stdout, CannotRead)
    /\ io' = Append(io, "read gold_history.json")
    /\ pc' = "PNJ"
    /\ UNCHANGED <<args, ret, history_file, web, telegram, clock>>

\* The locals after the try block of one adapter in get_all_gold_prices.
AfterAdapter(sofar, brand) ==
    LET after == TryAdapter(sofar, brand, Adapter(brand, web[brand]))
    IN [prev_history |-> locals.prev_history, data |-> after.data, errors |-> after.errors]

\* data = {}; errors = []; try: data["PNJ"] = get_pnj_prices() ...
GetPnj ==
    /\ pc = "PNJ"
    /\ locals' = AfterAdapter([data |-> <<>>, errors |-> <<>>], "PNJ")
    /\ io' = Append(io, "GET PNJ")
    /\ pc' = "DOJI"
    /\ UNCHANGED <<args, ret, history_file, web, stdout, telegram, clock>>

\* try: data["DOJI"] = get_doji_prices() ...
GetDoji ==
    /\ pc = "DOJI"
    /\ locals' = AfterAdapter(locals, "DOJI")
    /\ io' = Append(io, "GET DOJI")
    /\ pc' = "SJC"
    /\ UNCHANGED <<args, ret, history_file, web, stdout, telegram, clock>>

\* try: data["SJC"] = get_sjc_prices() ...; if errors: data["_errors"] = errors
GetSjc ==
    /\ pc = "SJC"
    /\ LET after == AfterAdapter(locals, "SJC")
           out == WithErrors(after)
       IN locals' = [prev_history |-> locals.prev_history,
                     data |-> out.data, errors |-> out.errors]
    /\ io' = Append(io, "GET SJC")
    /\ pc' = "format"
    /\ UNCHANGED <<args, ret, history_file, web, stdout, telegram, clock>>

\* message = format_gold_message(data, prev_history), or the except branch
FormatMessage ==
    /\ pc = "format"
    /\ LET lines == format_gold_message(locals.data, locals.prev_history, clock)
       IN IF lines.kind = "raise"
          THEN /\ locals' = [prev_history |-> locals.prev_history, data |-> locals.data,
                             errors |-> locals.errors, message |-> Fatal(lines)]
               /\ pc' = "chart"
          ELSE /\ locals' = [prev_history |-> locals.prev_history, data |-> locals.data,
                             errors |-> locals.errors, message |-> Report(lines.val)]
               /\ pc' = "snapshot"
    /\ UNCHANGED <<args, ret, history_file, web, io, stdout, telegram, clock>>

\* new_history = _build_history_snapshot(data), or the except branch
BuildSnapshot ==
    /\ pc = "snapshot"
    /\ LET snapshot == _build_history_snapshot(locals.data, clock)
       IN IF snapshot.kind = "raise"
          THEN /\ locals' = [locals EXCEPT !.message = Fatal(snapshot)]
               /\ pc' = "chart"
          ELSE /\ locals' = [prev_history |-> locals.prev_history, data |-> locals.data,
                             errors |-> locals.errors, message |-> locals.message,
                             new_history |-> snapshot.val]
               /\ pc' = "save"
    /\ UNCHANGED <<args, ret, history_file, web, io, stdout, telegram, clock>>

\* _save_history(new_history)
SaveHistory ==
    /\ pc = "save"
    /\ \E outcome \in WriteOutcomes :
           /\ history_file' = _save_history(history_file, locals.new_history, outcome)
           /\ stdout' = IF outcome = "ok" THEN stdout ELSE Append(stdout, CannotSave)
    /\ io' = Append(io, "write gold_history.json")
    /\ pc' = "chart"
    /\ UNCHANGED <<args, locals, ret, web, telegram, clock>>

\* generate_current_price_chart(data); send_telegram_photo(...), and the except
\* branch.  With no bar no file is written, and the photo sent is whatever
\* gold_chart.png an earlier run left, if any.
ChartAndPhoto ==
    /\ pc = "chart"
    /\ LET bars == generate_current_price_chart(locals.data)
       IN IF bars.kind = "raise"
          THEN /\ stdout' = Append(stdout, CannotChart)
               /\ UNCHANGED <<io, telegram>>
          ELSE \E outcome \in {"ok", "test mode", "error"} :
                  CASE outcome = "ok" ->
                           /\ telegram' = Append(telegram, [method |-> "sendPhoto",
                                  photo |-> IF bars.val = <<>> THEN "old gold_chart.png"
                                            ELSE "gold_chart.png"])
                           /\ io' = Append(io, "POST sendPhoto")
                           /\ UNCHANGED stdout
                    [] outcome = "test mode" ->
                           /\ stdout' = Append(stdout, TestModePhoto)
                           /\ UNCHANGED <<io, telegram>>
                    [] outcome = "error" ->
                           /\ stdout' = Append(stdout, CannotChart)
                           /\ UNCHANGED <<io, telegram>>
    /\ pc' = "send"
    /\ UNCHANGED <<args, locals, ret, history_file, web, clock>>

\* send_telegram_message(message): posted, printed without a token, or refused
SendMessage ==
    /\ pc = "send"
    /\ \E outcome \in {"ok", "test mode", "error"} :
           CASE outcome = "ok" ->
                    /\ telegram' = Append(telegram, [method |-> "sendMessage",
                                                     text |-> locals.message])
                    /\ io' = Append(io, "POST sendMessage")
                    /\ ret' = None
                    /\ UNCHANGED stdout
             [] outcome = "test mode" ->
                    /\ stdout' = Append(stdout, [text |-> "Test mode", message |-> locals.message])
                    /\ ret' = None
                    /\ UNCHANGED <<io, telegram>>
             [] outcome = "error" ->
                    /\ ret' = Raised("RuntimeError")
                    /\ UNCHANGED <<io, stdout, telegram>>
    /\ pc' = "exit"
    /\ UNCHANGED <<args, locals, history_file, web, clock>>

\* The next scheduled run of the script.
NewRun ==
    /\ pc = "exit"
    /\ clock < MaxRuns
    /\ clock' = clock + 1
    /\ web' \in Webs
    /\ pc' = "load"
    /\ locals' = <<>>
    /\ ret' = NotYet
    /\ io' = <<>>
    /\ stdout' = <<>>
    /\ telegram' = <<>>
    /\ UNCHANGED <<args, history_file>>

Next ==
    \/ LoadHistory
    \/ GetPnj
    \/ GetDoji
    \/ GetSjc
    \/ FormatMessage
    \/ BuildSnapshot
    \/ SaveHistory
    \/ ChartAndPhoto
    \/ SendMessage
    \/ NewRun

Spec == Init /\ [][Next]_vars

\* What the run has done so far.
Did(op) == \E n \in 1..Len(io) : io[n] = op
Times(op) == Cardinality({n \in 1..Len(io) : io[n] = op})
Printed(line) == \E n \in 1..Len(stdout) : stdout[n] = line

\* get_all_gold_prices has just returned.
Aggregated == pc = "format"

FailedAdapters == {b \in Sources : Adapter(b, web[b]).kind = "raise"}

\* C1: whichever adapters fail, the aggregation calls all three, lets no failure
\* out, and returns one result per adapter: the quotes of each adapter that
\* succeeded, the same as when no other adapter fails, and one error per adapter
\* that failed.
C1_OneResultPerAdapter ==
    Aggregated =>
        /\ SubSeq(io, 2, 4) = <<"GET PNJ", "GET DOJI", "GET SJC">>
        /\ Len(locals.errors) = Cardinality(FailedAdapters)
        /\ \A b \in Sources :
               IF b \in FailedAdapters
               THEN /\ b \notin DOMAIN locals.data
                    /\ Cardinality({n \in 1..Len(locals.errors) :
                           locals.errors[n] = b \o ": " \o Adapter(b, web[b]).val}) = 1
               ELSE /\ b \in DOMAIN locals.data
                    /\ locals.data[b] = Adapter(b, web[b]).val
        /\ "_errors" \in DOMAIN locals.data <=> FailedAdapters # {}
        /\ "_errors" \in DOMAIN locals.data => locals.data["_errors"] = locals.errors

C1_Witness ==
    /\ pc = "format"
    /\ FailedAdapters = {"DOJI"}
    /\ Len(locals.errors) = 1
    /\ DOMAIN locals.data = {"PNJ", "SJC", "_errors"}

HasMessage == pc \in {"snapshot", "save", "chart", "send", "exit"}

ReportBuilt == HasMessage /\ locals.message.kind = "report"

\* format_gold_message has just returned.
Formatted == pc = "snapshot"

CurrOf(brand) == _find_item_price(locals.data, brand, HeadlineName(brand), "ban")

PrevOf(brand) == DataGet(locals.prev_history, HistoryKey(brand))

SomePrev == \E b \in Sources : Truthy(PrevOf(b))

\* The lines of the report that give a brand's trend.
ReportTrend(brand) == TrendLines(locals.message.lines, brand)

HasLine(line) == \E n \in 1..Len(locals.message.lines) : locals.message.lines[n] = line

Saved == Did("write gold_history.json") /\ ~Printed(CannotSave)

C10_ReadOnceWriteAtMostOnce ==
    /\ Times("read gold_history.json") = (IF pc = "load" THEN 0 ELSE 1)
    /\ pc # "load" => io[1] = "read gold_history.json"
    /\ Times("write gold_history.json") <= 1
    /\ Did("write gold_history.json") => ReportBuilt
    /\ (pc # "load" /\ Printed(CannotRead)) => DOMAIN locals.prev_history = {}
    /\ (HasMessage /\ (Formatted \/ locals.message.kind = "fatal")) =>
           LET lines == format_gold_message(locals.data, locals.prev_history, clock)
           IN locals.message = IF lines.kind = "raise" THEN Fatal(lines) ELSE Report(lines.val)
    /\ (pc = "exit" /\ ret = None) =>
           \/ /\ telegram # <<>>
              /\ telegram[Len(telegram)] = [method |-> "sendMessage", text |-> locals.message]
           \/ /\ stdout # <<>>
              /\ stdout[Len(stdout)] = [text |-> "Test mode", message |-> locals.message]

C10_Witness ==
    /\ pc = "exit"
    /\ Printed(CannotRead)
    /\ Printed(CannotSave)
    /\ ReportBuilt
    /\ telegram # <<>>
    /\ telegram[Len(telegram)] = [method |-> "sendMessage", text |-> locals.message]

\* The entry a run's quotes give a brand: the headline price found in what the
\* brand's adapter makes of the page served, null when the adapter fails.
EntryOf(brand) ==
    LET quotes == Adapter(brand, web[brand])
    IN IF quotes.kind = "raise" THEN None
       ELSE FindFrom(quotes.val, 1, HeadlineName(brand), "ban")

\* C11: whatever runs came before, the file only changes in the save of a run,
\* and what the save leaves is the snapshot of that run alone, every brand entry
\* being the one that run's quotes give (null when they give none), with nothing
\* of the file stored before; a dump that breaks off leaves no snapshot.
C11_SnapshotOfLatestSavingRun ==
    [][history_file' # history_file =>
          /\ pc = "save"
          /\ \/ history_file' = PartialFile
             \/ history_file' = JsonFile([_timestamp_utc |-> clock,
                                          PNJ_HCM_BAN |-> EntryOf("PNJ"),
                                          DOJI_AVPL_BAN |-> EntryOf("DOJI"),
                                          SJC_1L_BAN |-> EntryOf("SJC")])]_vars

C11_Witness ==
    /\ pc = "chart"
    /\ clock = 2
    /\ Saved
    /\ Truthy(PrevOf("DOJI"))
    /\ Truthy(PrevOf("PNJ"))
    /\ Adapter("DOJI", web["DOJI"]).kind = "raise"
    /\ history_file = JsonFile(locals.new_history)
    /\ history_file.val["DOJI_AVPL_BAN"] = None
    /\ history_file.val["PNJ_HCM_BAN"] # PrevOf("PNJ")
    /\ history_file.val["_timestamp_utc"] = 2

====
